---- MODULE Spec2Model ----
(***************************************************************************)
(* PretrainedTransformerMismatchedEmbedder: the wordpiece embeddings of a  *)
(* pretrained transformer are pooled into one embedding per original       *)
(* token, by the first wordpiece of the token's span ("first") or by the   *)
(* mean of the span ("avg").                                               *)
(*                                                                         *)
(* Tensors are functions: the batch and the original tokens are indexed    *)
(* from 1, wordpieces and span positions from 0 (as the offsets count      *)
(* them), the components of an embedding from 1.  A float is an exact      *)
(* fraction <<numerator, denominator>> in lowest terms, so that the mean   *)
(* is the arithmetic mean; rounding is outside this model.                 *)
(***************************************************************************)
EXTENDS Integers, Sequences, FiniteSets, TLC

VARIABLES sub_token_mode, pc, args, adapter_out, storage, result, events, memo

vars == <<sub_token_mode, pc, args, adapter_out, storage, result, events, memo>>

(***************************************************************************)
(* Bounds of the model.                                                    *)
(***************************************************************************)
\* A batch holds at most this many original tokens (batch_size * num_orig_tokens).
MaxTotalTokens == 2
\* num_wordpieces of every batch.
NumWordpieces == 2
\* embedding_size, the adapter's output dimension.
EmbeddingSize == 2
\* token_ids tensors are told apart by an identifier 0..MaxTokenIds.
MaxTokenIds == 1

Modes == {"first", "avg", "max"}

Shapes == {sh \in (1..MaxTotalTokens) \X (1..MaxTotalTokens) : sh[1] * sh[2] <= MaxTotalTokens}

\* The spans inside the wordpiece range, 0 <= start <= end < num_wordpieces.
ValidSpans == {sp \in (0..(NumWordpieces - 1)) \X (0..(NumWordpieces - 1)) : sp[1] <= sp[2]}

\* An offsets entry <<start, end>>: a span inside the wordpiece range, the empty
\* spans <<0, -1>> and <<1, 0>> (end < start), and the starts outside the range
\* on either side, <<-1, -1>> and <<num_wordpieces, num_wordpieces>>.
SpanInputs ==
    ValidSpans \cup {<<0, -1>>, <<1, 0>>, <<-1, -1>>, <<NumWordpieces, NumWordpieces>>}

OffsetsInputs(B, N) == [1..B -> [1..N -> SpanInputs]]

MaskInputs(B, N) == [1..B -> [1..N -> BOOLEAN]]

(***************************************************************************)
(* Exact arithmetic on floats.                                             *)
(***************************************************************************)
Abs(x) == IF x < 0 THEN -x ELSE x

RECURSIVE GCD(_, _)
GCD(a, b) == IF b = 0 THEN a ELSE GCD(b, a % b)

\* The fraction n/d (d > 0) in lowest terms.
Frac(n, d) ==
    LET g == GCD(Abs(n), d)
    IN  IF n = 0 THEN <<0, 1>> ELSE <<n \div g, d \div g>>

Float(v) == <<v, 1>>

FAdd(x, y) == Frac(x[1] * y[2] + y[1] * x[2], x[2] * y[2])

\* x * m for a boolean m (a bool tensor multiplies as 0 or 1).
FMulBool(x, m) == IF m THEN x ELSE Float(0)

\* x / n for a positive integer n.
FDivInt(x, n) == Frac(x[1], x[2] * n)

ZeroVector == [k \in 1..EmbeddingSize |-> Float(0)]

VAdd(u, v) == [k \in 1..EmbeddingSize |-> FAdd(u[k], v[k])]

(***************************************************************************)
(* The wordpiece encoder adapter, self._matched_embedder: an external      *)
(* collaborator, a deterministic function of its inputs.  Its output for   *)
(* the token_ids tensor numbered t has shape [B, NumWordpieces,            *)
(* EmbeddingSize]; t = 0 gives every entry a different non-zero value, the *)
(* others mix zeros, repeats and negative values.                          *)
(***************************************************************************)
MatchedEmbedder(t, B) ==
    [b \in 1..B |->
        [w \in 0..(NumWordpieces - 1) |->
            [k \in 1..EmbeddingSize |->
                IF t = 0
                THEN Float(k + EmbeddingSize * w + EmbeddingSize * NumWordpieces * (b - 1))
                ELSE Float(((t * (b + 2 * w + k)) % 4) - 1)]]]

BatchSize(t) == Len(t)
NumOrigTokens(t) == Len(t[1])

(***************************************************************************)
(* util.batched_span_select(target, spans): the wordpieces start..end of   *)
(* every token are gathered into a tensor of its own, right-padded to the  *)
(* widest span of the batch, with a mask of the positions that hold a      *)
(* wordpiece of the span.  A padded position is not zeroed: it holds the   *)
(* wordpiece at index 0 of the batch element, and the caller masks it.     *)
(***************************************************************************)
SetMax(S) == CHOOSE x \in S : \A y \in S : y <= x

\* max_batch_span_width = span_widths.max() + 1, span_widths = end - start.
MaxBatchSpanWidth(offsets) ==
    SetMax({offsets[b][j][2] - offsets[b][j][1] :
                b \in 1..BatchSize(offsets), j \in 1..NumOrigTokens(offsets)}) + 1

\* The validity mask of position i of the span <<s, e>> over W wordpieces.
SpanValid(sp, i, W) == /\ i <= sp[2] - sp[1]
                       /\ sp[1] + i < W
                       /\ 0 <= sp[1] + i

\* The wordpiece index gathered at position i: the raw index start + i where the
\* position is valid and index 0 elsewhere (raw index times mask).
SpanIndex(sp, i, W) == IF SpanValid(sp, i, W) THEN sp[1] + i ELSE 0

BatchedSpanSelect(target, offsets) ==
    LET L == MaxBatchSpanWidth(offsets)
        W == NumWordpieces
    IN  [span_embeddings |->
            [b \in 1..BatchSize(offsets) |->
                [j \in 1..NumOrigTokens(offsets) |->
                    [i \in 0..(L - 1) |-> target[b][SpanIndex(offsets[b][j], i, W)]]]],
         span_mask |->
            [b \in 1..BatchSize(offsets) |->
                [j \in 1..NumOrigTokens(offsets) |->
                    [i \in 0..(L - 1) |-> SpanValid(offsets[b][j], i, W)]]]]

(***************************************************************************)
(* forward.                                                                *)
(***************************************************************************)
\* span_mask.shape[-1]
MaxSpanLength(span_mask) == Cardinality(DOMAIN span_mask[1][1])

\* A bool compared with an integer counts as 0 or 1.
BoolAsInt(x) == IF x THEN 1 ELSE 0

\* torch.zeros(span_mask.shape, dtype=torch.bool)
SpanMaskBool(span_mask) ==
    [b \in DOMAIN span_mask |->
        [j \in DOMAIN span_mask[b] |-> [i \in DOMAIN span_mask[b][j] |-> FALSE]]]

\* Mutant: the range is compared with the validity mask, not with the zeros.
FirstSpanMaskValid(span_mask) ==
    [b \in DOMAIN span_mask |->
        [j \in DOMAIN span_mask[b] |->
            [i \in DOMAIN span_mask[b][j] |-> i <= BoolAsInt(span_mask[b][j][i])]]]

\* span_mask = max_span_range_indices <= span_mask_bool  (arange broadcast)
FirstSpanMask(span_mask) ==
    LET span_mask_bool == SpanMaskBool(span_mask)
    IN  [b \in DOMAIN span_mask |->
            [j \in DOMAIN span_mask[b] |->
                [i \in 0..(MaxSpanLength(span_mask) - 1) |->
                    i <= BoolAsInt(span_mask_bool[b][j][i])]]]

\* span_embeddings *= span_mask  (the mask unsqueezed over the embedding).
MulSpanMask(span_embeddings, span_mask) ==
    [b \in DOMAIN span_embeddings |->
        [j \in DOMAIN span_embeddings[b] |->
            [i \in DOMAIN span_embeddings[b][j] |->
                [k \in 1..EmbeddingSize |->
                    FMulBool(span_embeddings[b][j][i][k], span_mask[b][j][i])]]]]

\* The sum of the vectors f[0], ..., f[n-1]; the zero vector for n = 0.
RECURSIVE VSum(_, _)
VSum(f, n) == IF n = 0 THEN ZeroVector ELSE VAdd(VSum(f, n - 1), f[n - 1])

\* span_embeddings.sum(2)
SumSpans(span_embeddings) ==
    [b \in DOMAIN span_embeddings |->
        [j \in DOMAIN span_embeddings[b] |->
            VSum(span_embeddings[b][j], Cardinality(DOMAIN span_embeddings[b][j]))]]

RECURSIVE CountTrue(_, _)
CountTrue(f, n) == IF n = 0 THEN 0 ELSE CountTrue(f, n - 1) + BoolAsInt(f[n - 1])

\* Mutant: the length of a span is taken to be max_span_length.
SpanEmbeddingsLenPadded(span_mask) ==
    [b \in DOMAIN span_mask |->
        [j \in DOMAIN span_mask[b] |-> Cardinality(DOMAIN span_mask[b][j])]]

\* span_mask.sum(2)
SpanEmbeddingsLen(span_mask) ==
    [b \in DOMAIN span_mask |->
        [j \in DOMAIN span_mask[b] |->
            CountTrue(span_mask[b][j], Cardinality(DOMAIN span_mask[b][j]))]]

ClampMin(x, lo) == IF x < lo THEN lo ELSE x

\* span_embeddings_sum / torch.clamp_min(span_embeddings_len, 1)
AvgDivide(span_embeddings_sum, span_embeddings_len) ==
    [b \in DOMAIN span_embeddings_sum |->
        [j \in DOMAIN span_embeddings_sum[b] |->
            [k \in 1..EmbeddingSize |->
                FDivInt(span_embeddings_sum[b][j][k], ClampMin(span_embeddings_len[b][j], 1))]]]

\* orig_embeddings[(span_embeddings_len == 0).expand(...)] = 0
WriteZeros(orig_embeddings, span_embeddings_len) ==
    [b \in DOMAIN orig_embeddings |->
        [j \in DOMAIN orig_embeddings[b] |->
            IF span_embeddings_len[b][j] = 0 THEN ZeroVector ELSE orig_embeddings[b][j]]]

\* Mutant: span position 0 is selected directly, and a batch without any span
\* position (max_span_length = 0) yields no embedding for its tokens.
FirstBranchSelect(sel) ==
    [span_embeddings |-> sel.span_embeddings,
     orig_embeddings |->
        [b \in DOMAIN sel.span_embeddings |->
            [j \in DOMAIN sel.span_embeddings[b] |->
                IF 0 \in DOMAIN sel.span_embeddings[b][j]
                THEN sel.span_embeddings[b][j][0]
                ELSE <<>>]]]

\* The branch sub_token_mode == "first": the span tensor after the in-place
\* multiplication, and orig_embeddings.
FirstBranch(sel) ==
    LET masked == MulSpanMask(sel.span_embeddings, FirstSpanMask(sel.span_mask))
    IN  [span_embeddings |-> masked, orig_embeddings |-> SumSpans(masked)]

\* The branch sub_token_mode == "avg".
AvgBranch(sel) ==
    LET masked == MulSpanMask(sel.span_embeddings, sel.span_mask)
        span_embeddings_len == SpanEmbeddingsLen(sel.span_mask)
    IN  [span_embeddings |-> masked,
         orig_embeddings |->
            WriteZeros(AvgDivide(SumSpans(masked), span_embeddings_len), span_embeddings_len)]

\* Mutant: an unrecognised mode falls back to the default, "avg".
DispatchDefaultAvg(mode) == IF mode = "first" THEN "first" ELSE "avg"

\* The if / elif / else over self.sub_token_mode: the branch taken.
Dispatch(mode) ==
    IF mode = "first" THEN "first" ELSE IF mode = "avg" THEN "avg" ELSE "raise"

\* Mutant: the in-place multiplication writes to the adapter's tensor.
StorageAfterMulAliased(mem, masked) == [mem EXCEPT !.embeddings = masked]

\* The tensors in memory once a branch has run: span_embeddings is the tensor
\* batched_span_select gathered, and the in-place multiplication writes to it.
StorageAfterMul(mem, masked) == [mem EXCEPT !.span_embeddings = masked]

\* Mutant: the mode is looked at first, and an invalid one raises at once.
ForwardEventsModeFirst(outcome) ==
    IF outcome = "raise" THEN <<"mode", "raise">>
    ELSE <<"mode", "embed", "span_select", outcome>>

\* What forward does, in the order of its statements, up to its outcome.
ForwardEvents(outcome) == <<"embed", "span_select", "mode", outcome>>

\* Mutant: forward switches an "avg" embedder to "first" once it has run.
SubTokenModeSwitched == IF sub_token_mode = "avg" THEN "first" ELSE sub_token_mode

\* self.sub_token_mode once forward has run: forward only reads the attribute.
SubTokenModeAfterForward == sub_token_mode

\* The value forward returns for a valid mode.
ForwardValue(mode, embeddings, offsets) ==
    LET sel == BatchedSpanSelect(embeddings, offsets)
    IN  IF Dispatch(mode) = "first" THEN FirstBranch(sel).orig_embeddings
        ELSE AvgBranch(sel).orig_embeddings

NoCall == [kind |-> "none"]

Init ==
    /\ sub_token_mode = "unset"
    /\ pc = "new"
    /\ args = NoCall
    /\ adapter_out = NoCall
    /\ storage = NoCall
    /\ result = NoCall
    /\ events = <<>>
    /\ memo = NoCall

\* __init__: sub_token_mode is stored unchecked.
Construct ==
    /\ pc = "new"
    /\ \E m \in Modes : sub_token_mode' = m
    /\ pc' = "ready"
    /\ UNCHANGED <<args, adapter_out, storage, result, events, memo>>

\* One call of forward on a constructed embedder (pc = "ready"), from the
\* adapter's call to the return or the raise.
ForwardCall(token_ids, mask, offsets) ==
    LET embeddings == MatchedEmbedder(token_ids, BatchSize(offsets))
        sel == BatchedSpanSelect(embeddings, offsets)
        mem == [embeddings |-> embeddings, span_embeddings |-> sel.span_embeddings]
        branch == Dispatch(sub_token_mode)
        br == IF branch = "first" THEN FirstBranch(sel) ELSE AvgBranch(sel)
    IN  /\ args' = [token_ids |-> token_ids, mask |-> mask, offsets |-> offsets]
        /\ adapter_out' = embeddings
        /\ IF branch = "raise"
           THEN /\ storage' = mem
                /\ result' = [kind |-> "raised", error |-> <<"ValueError", sub_token_mode>>]
                /\ events' = ForwardEvents("raise")
           ELSE /\ storage' = StorageAfterMul(mem, br.span_embeddings)
                /\ result' = [kind |-> "returned", value |-> br.orig_embeddings]
                /\ events' = ForwardEvents("return")
        /\ sub_token_mode' = SubTokenModeAfterForward
        /\ pc' = "done"
        /\ memo' = IF memo.kind = "call" /\ memo.args # args'
                   THEN [memo EXCEPT !.between = TRUE]
                   ELSE memo

Forward ==
    /\ pc = "ready"
    /\ \E sh \in Shapes, t \in 0..MaxTokenIds :
         \E mask \in MaskInputs(sh[1], sh[2]), offsets \in OffsetsInputs(sh[1], sh[2]) :
            ForwardCall(t, mask, offsets)

\* The caller takes the result (or the error); the tensors of the call are dropped.
Finish ==
    /\ pc = "done"
    /\ pc' = "ready"
    /\ args' = NoCall
    /\ adapter_out' = NoCall
    /\ storage' = NoCall
    /\ result' = NoCall
    /\ events' = <<>>
    /\ UNCHANGED <<sub_token_mode, memo>>

Next == Construct \/ Forward \/ Finish

Spec == Init /\ [][Next]_vars

(***************************************************************************)
(* Repeated calls: an observer keeps one finished call (its arguments, its *)
(* outcome and the mode it ran under) while further calls are made, and    *)
(* notes in memo.between that a call with other arguments followed.  The   *)
(* calls are over one batch element of two tokens.                         *)
(***************************************************************************)
RepeatSpans == {<<0, 0>>, <<0, NumWordpieces - 1>>, <<0, -1>>}

ForwardRepeat ==
    /\ pc = "ready"
    /\ \E t \in 0..MaxTokenIds :
         \E mask \in MaskInputs(1, 2), offsets \in [1..1 -> [1..2 -> RepeatSpans]] :
            ForwardCall(t, mask, offsets)

Remember ==
    /\ pc = "done"
    /\ memo.kind = "none"
    /\ memo' = [kind |-> "call", args |-> args, result |-> result,
                mode |-> sub_token_mode, between |-> FALSE]
    /\ UNCHANGED <<sub_token_mode, pc, args, adapter_out, storage, result, events>>

NextRepeat == Construct \/ ForwardRepeat \/ Remember \/ Finish

SpecRepeat == Init /\ [][NextRepeat]_vars

(***************************************************************************)
(* The claims.                                                             *)
(***************************************************************************)
Done == pc = "done"
Returned == pc = "done" /\ result.kind = "returned"
Raised == pc = "done" /\ result.kind = "raised"

\* The (batch element, original token) pairs of an offsets tensor.
TokensOf(offsets) == (1..BatchSize(offsets)) \X (1..NumOrigTokens(offsets))

InRange(sp) == 0 <= sp[1] /\ sp[1] <= sp[2] /\ sp[2] < NumWordpieces

\* The number of wordpieces a span selects.
SpanLength(sp) == Cardinality({w \in sp[1]..sp[2] : 0 <= w /\ w < NumWordpieces})

\* The sum of component k of the vectors row[s], ..., row[e], as a float.
RECURSIVE RowSum(_, _, _, _)
RowSum(row, s, e, k) == IF e < s THEN Float(0) ELSE FAdd(RowSum(row, s, e - 1, k), row[e][k])

\* The arithmetic mean of the vectors row[s], ..., row[e].
MeanOf(row, s, e) ==
    [k \in 1..EmbeddingSize |->
        LET total == RowSum(row, s, e, k)
        IN  Frac(total[1], total[2] * (e - s + 1))]

\* The offsets with the end of token <<b, j>> set to e.
WithEnd(offsets, b, j, e) == [offsets EXCEPT ![b][j] = <<offsets[b][j][1], e>>]

\* C1: in "avg" mode the output of every token whose span <<s, e>> lies inside
\* the wordpiece range is the arithmetic mean of its batch element's wordpiece
\* embeddings s..e, whatever the spans of the other tokens of the batch.
C1_AvgIsMean ==
    (Returned /\ sub_token_mode = "avg") =>
        \A tk \in TokensOf(args.offsets) :
            LET sp == args.offsets[tk[1]][tk[2]]
            IN  InRange(sp) =>
                    result.value[tk[1]][tk[2]] = MeanOf(adapter_out[tk[1]], sp[1], sp[2])

\* A token of two or more wordpieces, whose mean is not its first wordpiece,
\* beside a token with a shorter span.
C1_Witness ==
    /\ Returned /\ sub_token_mode = "avg"
    /\ \E tk \in TokensOf(args.offsets), other \in TokensOf(args.offsets) :
         LET sp == args.offsets[tk[1]][tk[2]]
             so == args.offsets[other[1]][other[2]]
         IN  /\ InRange(sp) /\ sp[2] > sp[1]
             /\ other # tk /\ SpanLength(so) < SpanLength(sp)
             /\ result.value[tk[1]][tk[2]] # adapter_out[tk[1]][sp[1]]
             /\ result.value[tk[1]][tk[2]] = MeanOf(adapter_out[tk[1]], sp[1], sp[2])

\* C2: in "first" mode the output of every token whose span <<s, e>> lies inside
\* the wordpiece range is exactly its batch element's wordpiece embedding at s,
\* and it is the same for every other end e2 >= s.
C2_FirstIsStart ==
    (Returned /\ sub_token_mode = "first") =>
        \A tk \in TokensOf(args.offsets) :
            LET sp == args.offsets[tk[1]][tk[2]]
            IN  InRange(sp) =>
                    /\ result.value[tk[1]][tk[2]] = adapter_out[tk[1]][sp[1]]
                    /\ \A e2 \in sp[1]..(NumWordpieces - 1) :
                          ForwardValue("first", adapter_out,
                                       WithEnd(args.offsets, tk[1], tk[2], e2))[tk[1]][tk[2]]
                            = result.value[tk[1]][tk[2]]

\* A token of two or more wordpieces whose output is its first wordpiece and
\* not the sum of its span.
C2_Witness ==
    /\ Returned /\ sub_token_mode = "first"
    /\ \E tk \in TokensOf(args.offsets) :
         LET sp == args.offsets[tk[1]][tk[2]]
         IN  /\ InRange(sp) /\ sp[2] > sp[1]
             /\ result.value[tk[1]][tk[2]] = adapter_out[tk[1]][sp[1]]
             /\ result.value[tk[1]][tk[2]]
                    # VAdd(adapter_out[tk[1]][sp[1]], adapter_out[tk[1]][sp[1] + 1])

\* C3: the output of every token whose span selects no wordpiece (end < start,
\* or a start outside the wordpiece range) is the zero vector, in both modes.
C3_EmptySpanIsZero ==
    Returned =>
        \A tk \in TokensOf(args.offsets) :
            SpanLength(args.offsets[tk[1]][tk[2]]) = 0 =>
                result.value[tk[1]][tk[2]] = ZeroVector

\* C4: the output of every token the mask marks as padding (mask[b][j] false)
\* is the zero vector, in both modes and whatever its offsets entry.
C4_PaddingIsZero ==
    Returned =>
        \A tk \in TokensOf(args.offsets) :
            ~args.mask[tk[1]][tk[2]] => result.value[tk[1]][tk[2]] = ZeroVector

\* C5: with a mode other than "first" and "avg" forward raises an error that
\* names the mode and returns no embedding; with "first" or "avg" it returns.
C5_InvalidModeRaises ==
    Done =>
        /\ (sub_token_mode \notin {"first", "avg"} =>
              /\ result.kind = "raised"
              /\ result.error = <<"ValueError", sub_token_mode>>
              /\ "value" \notin DOMAIN result)
        /\ (sub_token_mode \in {"first", "avg"} =>
              /\ result.kind = "returned"
              /\ "error" \notin DOMAIN result)

C5_Witness ==
    /\ Raised /\ sub_token_mode = "max"
    /\ result.error = <<"ValueError", "max">>

\* C6: when forward has returned or raised, the adapter's wordpiece embeddings
\* hold the values the adapter produced.
C6_AdapterOutputUntouched ==
    Done => storage.embeddings = adapter_out

\* The in-place multiplication has zeroed an entry of the gathered spans.
C6_Witness ==
    /\ Returned
    /\ storage.span_embeddings
          # BatchedSpanSelect(adapter_out, args.offsets).span_embeddings
    /\ storage.embeddings = adapter_out

C8_OutputShape ==
    Returned =>
        /\ DOMAIN result.value = 1..BatchSize(args.offsets)
        /\ \A b \in 1..BatchSize(args.offsets) :
              /\ DOMAIN result.value[b] = 1..NumOrigTokens(args.offsets)
              /\ \A j \in 1..NumOrigTokens(args.offsets) :
                    DOMAIN result.value[b][j] = 1..EmbeddingSize

\* Every span of a batch of two or more tokens is empty: max_span_length = 0.
C8_Witness ==
    /\ Returned
    /\ MaxBatchSpanWidth(args.offsets) = 0
    /\ Cardinality(TokensOf(args.offsets)) >= 2
    /\ \A tk \in TokensOf(args.offsets) : result.value[tk[1]][tk[2]] = ZeroVector

\* The positions of an event in the events of a call.
EventAt(e) == {i \in 1..Len(events) : events[i] = e}

\* C9: every forward call invokes the adapter once, before the mode is looked
\* at; a call with an invalid mode has invoked the adapter and gathered the
\* spans when it raises.
C9_AdapterOnceBeforeMode ==
    Done =>
        /\ Cardinality(EventAt("embed")) = 1
        /\ \A i \in EventAt("embed"), m \in EventAt("mode") : i < m
        /\ adapter_out = MatchedEmbedder(args.token_ids, BatchSize(args.offsets))
        /\ (Raised =>
              /\ \A i \in EventAt("span_select"), r \in EventAt("raise") : i < r
              /\ EventAt("span_select") # {}
              /\ storage.span_embeddings
                    = BatchedSpanSelect(adapter_out, args.offsets).span_embeddings)

\* The constructor took the mode "max", and the call raised after the adapter ran.
C9_Witness ==
    /\ Raised /\ sub_token_mode = "max"
    /\ events = <<"embed", "span_select", "mode", "raise">>
    /\ storage.embeddings = adapter_out

\* C10: the output at a token is a function of its own offsets entry and of the
\* wordpiece embeddings of its batch element: it stays the same when the offsets
\* entry of any other token is replaced.
C10_TokenLocality ==
    Returned =>
        \A tk \in TokensOf(args.offsets), other \in TokensOf(args.offsets) :
            other # tk =>
                \A sp \in SpanInputs :
                    ForwardValue(sub_token_mode, adapter_out,
                                 [args.offsets EXCEPT ![other[1]][other[2]] = sp])[tk[1]][tk[2]]
                        = result.value[tk[1]][tk[2]]

====
